---- MODULE Spec2Model ----
(***************************************************************************)
(* Model of lib/filesystem.py of openstack-ansible: locating, loading,     *)
(* backing up and saving the inventory file openstack_inventory.json.      *)
(*                                                                         *)
(* Python values are records [t, s]: t is the Python type, s the tokens of *)
(* the value.  A path is a str whose tokens are its components; a file's   *)
(* content is a sequence of JSON lexemes.                                  *)
(***************************************************************************)
EXTENDS Integers, Sequences, FiniteSets, TLC

VARIABLES
    files,      \* the regular files of the filesystem: path tokens -> content
    tars,       \* the tar archives of the filesystem: path tokens -> entries
    clock,      \* the UTC clock, in half seconds
    heap,       \* the caller's Python objects: object id -> dict items
    call,       \* the last call made into the module, with its arguments
    ret,        \* the outcome of that call: a return value or an exception
    files0,     \* the files as they were when the last call started
    tars0,      \* the archives as they were when the last call started
    loaded,     \* per archive: the file contents of the loads of an existing
                \* inventory that returned, oldest first
    mutations   \* caller's mutations of the last returned inventory

vars == <<files, tars, clock, heap, call, ret, files0, tars0, loaded,
          mutations>>

----------------------------------------------------------------------------
(* Bounds of the model *)

MaxClock == 2        \* the clock stops after this many ticks
MaxEntries == 2      \* loads of an existing inventory in one behaviour
MaxMutations == 1    \* caller's mutations of one returned inventory

----------------------------------------------------------------------------
(* Python values *)

PyStr(tokens) == [t |-> "str", s |-> tokens]
PyFalse == [t |-> "bool", s |-> <<"False">>]
PyTrue == [t |-> "bool", s |-> <<"True">>]
PyNone == [t |-> "NoneType", s |-> <<>>]
PyDict(tokens) == [t |-> "dict", s |-> tokens]
PyRef(o) == [t |-> "ref", s |-> <<o>>]

INVENTORY_FILENAME == PyStr(<<"openstack_inventory.json">>)
OtherFilename == PyStr(<<"user_variables.json">>)
BackupFilename == PyStr(<<"backup_openstack_inventory.tar">>)

(* The directories of the modelled filesystem.  A relative path is resolved *)
(* against the working directory, which holds no entry named "~".           *)
StandardDir == <<"/", "etc", "openstack_deploy">>
HomeDir == <<"/", "root">>
MissingDir == <<"/", "opt", "inventory">>
TildeDir == <<"~">>
ExistingDirs == {StandardDir, HomeDir}

PreferredPaths ==
    {PyNone, PyStr(TildeDir), PyStr(HomeDir), PyStr(StandardDir),
     PyStr(MissingDir)}
Filenames == {INVENTORY_FILENAME, OtherFilename}

(* os.path.join of two relative-or-absolute paths: an absolute second      *)
(* argument replaces the first.                                            *)
Join(a, b) ==
    IF b.s # <<>> /\ Head(b.s) = "/" THEN b ELSE PyStr(a.s \o b.s)

(* os.path.expanduser: a leading "~" component becomes the home directory. *)
Expanduser(p) ==
    IF p.s # <<>> /\ Head(p.s) = "~" THEN PyStr(HomeDir \o Tail(p.s)) ELSE p

Dirname(p) == SubSeq(p.s, 1, Len(p.s) - 1)
Basename(p) == PyStr(<<p.s[Len(p.s)]>>)

IsFile(fs, p) == p.s \in DOMAIN fs
IsDir(p) == p.s \in ExistingDirs

----------------------------------------------------------------------------
(* File contents and json.loads *)

ContentX1 == <<"{", "\"x\"", ":", "1", "}">>
ContentX1Spaced == <<"{", " ", "\"x\"", ":", " ", "1", " ", "}">>
ContentEmpty == <<"{", "}">>
ContentFalse == <<"false">>
ContentTruncated == <<"{", "\"x\"", ":">>

WellFormed == {ContentX1, ContentX1Spaced, ContentEmpty, ContentFalse}
Contents == WellFormed \cup {ContentTruncated}

IsWhitespace(tok) == tok \in {" ", "\n", "\t"}
StripWhitespace(toks) == SelectSeq(toks, LAMBDA tok : ~IsWhitespace(tok))

Raise(exc, msg) ==
    [kind |-> "raise", exc |-> exc, msg |-> msg, value |-> PyNone,
     second |-> PyNone]
Return(value, second) ==
    [kind |-> "return", exc |-> "", msg |-> <<>>, value |-> value,
     second |-> second]

(* json.loads over the lexemes of the file: whitespace between lexemes is  *)
(* skipped, false is the Python False, an object becomes a dict, anything  *)
(* else is a ValueError.                                                   *)
JsonLoads(toks) ==
    LET t == StripWhitespace(toks) IN
    IF t = <<"false">> THEN Return(PyFalse, PyNone)
    ELSE IF t = <<"{", "}">> THEN Return(PyDict(<<>>), PyNone)
    ELSE IF Len(t) = 5 /\ t[1] = "{" /\ t[3] = ":" /\ t[5] = "}"
        THEN Return(PyDict(<<t[2], t[4]>>), PyNone)
    ELSE Raise("ValueError", <<>>)

----------------------------------------------------------------------------
(* _get_search_paths and file_find *)

(* The preferred directory appended after the standard one, not inserted  *)
(* before it.                                                              *)
SearchPathsStandardFirst(preferred_path, suffix) ==
    LET standard == <<PyStr(StandardDir)>>
        search_paths ==
            IF preferred_path # PyNone
            THEN standard \o <<Expanduser(preferred_path)>>
            ELSE standard
    IN [i \in DOMAIN search_paths |-> Join(search_paths[i], suffix)]

_get_search_paths(preferred_path, suffix) ==
    LET standard == <<PyStr(StandardDir)>>
        search_paths ==
            IF preferred_path # PyNone
            THEN <<Expanduser(preferred_path)>> \o standard
            ELSE standard
    IN [i \in DOMAIN search_paths |-> Join(search_paths[i], suffix)]

PathTokens(search_paths) == [i \in DOMAIN search_paths |-> search_paths[i].s]

(* The index of the candidate file_find's loop stops at, 0 when the loop   *)
(* runs to its else branch.                                                *)
FirstFile(fs, search_paths) ==
    LET hits == {i \in DOMAIN search_paths : IsFile(fs, search_paths[i])}
    IN IF hits = {} THEN 0 ELSE CHOOSE i \in hits : \A j \in hits : i <= j

(* The error raised without the list of the paths searched. *)
FileFindBareExit(fs, filename, preferred_path, pass_exception) ==
    LET search_paths == _get_search_paths(preferred_path, filename)
        i == FirstFile(fs, search_paths)
    IN IF i # 0 THEN Return(search_paths[i], PyNone)
       ELSE IF pass_exception = PyFalse
           THEN Raise("SystemExit", <<>>)
       ELSE Return(PyFalse, PyNone)

file_find(fs, filename, preferred_path, pass_exception) ==
    LET search_paths == _get_search_paths(preferred_path, filename)
        i == FirstFile(fs, search_paths)
    IN IF i # 0 THEN Return(search_paths[i], PyNone)
       ELSE IF pass_exception = PyFalse
           THEN Raise("SystemExit", PathTokens(search_paths))
       ELSE Return(PyFalse, PyNone)

----------------------------------------------------------------------------
(* load_from_json *)

(* A parse error swallowed: the file is reported as holding no data. *)
LoadFromJsonSwallowing(fs, filename, preferred_path, pass_exception) ==
    LET found == file_find(fs, filename, preferred_path, pass_exception)
        target_file == found.value
    IN IF found.kind = "raise" THEN found
       ELSE IF target_file # PyFalse
           THEN LET parsed == JsonLoads(fs[target_file.s])
                IN IF parsed.kind = "raise" THEN Return(PyFalse, target_file)
                   ELSE Return(parsed.value, target_file)
       ELSE Return(PyFalse, target_file)

load_from_json(fs, filename, preferred_path, pass_exception) ==
    LET found == file_find(fs, filename, preferred_path, pass_exception)
        target_file == found.value
    IN IF found.kind = "raise" THEN found
       ELSE IF target_file # PyFalse
           THEN LET parsed == JsonLoads(fs[target_file.s])
                IN IF parsed.kind = "raise" THEN parsed
                   ELSE Return(parsed.value, target_file)
       ELSE Return(PyFalse, target_file)

----------------------------------------------------------------------------
(* _get_backup_name and _make_backup *)

Pad2(n) == IF n < 10 THEN "0" \o ToString(n) ELSE ToString(n)

(* datetime.utcnow().strftime("%Y%m%d_%H%M%S"): the sub-second part of the *)
(* clock is dropped.  The behaviour starts at 2014-01-01 00:00:59 UTC.     *)
Strftime(now) ==
    LET seconds == 59 + (now \div 2)
    IN <<"20140101", "_", "00", Pad2((seconds \div 60) % 60),
         Pad2(seconds % 60)>>

_get_backup_name(basename, now) ==
    PyStr(basename.s \o <<"-">> \o Strftime(now) \o <<".json">>)

Entries(ts, path) == IF path.s \in DOMAIN ts THEN ts[path.s] ELSE <<>>

PutEntries(ts, path, entries) ==
    [q \in DOMAIN ts \cup {path.s} |-> IF q = path.s THEN entries ELSE ts[q]]

(* tarfile.add in append mode: the member is written after the existing    *)
(* members, whatever their names.                                          *)
TarAdd(entries, arcname, content) ==
    Append(entries, [name |-> arcname, content |-> content])

(* fault is the I/O failure the filesystem answers with: "none", "open"    *)
(* (the archive cannot be opened) or "add" (the member cannot be written). *)
(* os.path.join(None, ...) raises before anything is opened (TypeError;    *)
(* AttributeError under Python 2).                                         *)
_make_backup(fs, ts, now, backup_path, source_file_path, fault) ==
    IF backup_path = PyNone
    THEN [out |-> Raise("TypeError", <<>>), tars |-> ts]
    ELSE
    LET inventory_backup_file == Join(backup_path, BackupFilename)
        entries == Entries(ts, inventory_backup_file)
        basename == Basename(source_file_path)
        backup_name == _get_backup_name(basename, now)
    IN IF ~IsDir(PyStr(Dirname(inventory_backup_file))) \/ fault = "open"
       THEN [out |-> Raise("IOError", <<>>), tars |-> ts]
       ELSE IF fault = "add"
       THEN [out |-> Raise("IOError", <<>>),
             tars |-> PutEntries(ts, inventory_backup_file, entries)]
       ELSE [out |-> Return(PyNone, PyNone),
             tars |-> PutEntries(ts, inventory_backup_file,
                         TarAdd(entries, backup_name,
                                fs[source_file_path.s]))]

----------------------------------------------------------------------------
(* The caller's objects and copy.deepcopy *)

ObjOrder == <<"o1", "o2", "o3", "o4", "o5", "o6">>
ObjIds == {ObjOrder[i] : i \in DOMAIN ObjOrder}
DefaultRoot == "o1"

(* The default skeleton {"all": {"hosts": {}}} *)
HostsSkeleton ==
    [o \in {"o1", "o2", "o3"} |->
        IF o = "o1" THEN {<<"all", "o2">>}
        ELSE IF o = "o2" THEN {<<"hosts", "o3">>}
        ELSE {}]

Children(h, o) == {it[2] : it \in h[o]} \cap DOMAIN h

RECURSIVE Reach(_, _)
Reach(h, o) == {o} \cup UNION {Reach(h, c) : c \in Children(h, o)}

Refs(h, v) == IF v.t = "ref" THEN Reach(h, v.s[1]) ELSE {}

RECURSIVE DeepVal(_, _)
DeepVal(h, o) ==
    {<<it[1], IF it[2] \in DOMAIN h THEN DeepVal(h, it[2])
              ELSE {<<"=", it[2]>>}>> : it \in h[o]}

DeepValue(h, v) == IF v.t = "ref" THEN DeepVal(h, v.s[1]) ELSE {<<"=", v>>}

(* copy.copy: the top-level dict alone is copied, its values are shared. *)
ShallowCopy(h, v) ==
    IF v.t # "ref" THEN [heap |-> h, value |-> v]
    ELSE
    LET free == SelectSeq(ObjOrder, LAMBDA o : o \notin DOMAIN h)
        n == free[1]
    IN [heap |-> [o \in DOMAIN h \cup {n} |->
                    IF o = n THEN h[v.s[1]] ELSE h[o]],
        value |-> PyRef(n)]

(* copy.deepcopy: None is returned as it is; of a dict, every object       *)
(* reachable from it is copied once into a fresh object (the memo), the    *)
(* copies referring to each other as the originals do.                     *)
Deepcopy(h, v) ==
    IF v.t # "ref" THEN [heap |-> h, value |-> v]
    ELSE
    LET old == SelectSeq(ObjOrder, LAMBDA o : o \in Reach(h, v.s[1]))
        free == SelectSeq(ObjOrder, LAMBDA o : o \notin DOMAIN h)
        olds == {old[i] : i \in DOMAIN old}
        memo == [o \in olds |-> free[CHOOSE i \in DOMAIN old : old[i] = o]]
        fresh == {memo[o] : o \in olds}
        source(n) == CHOOSE o \in olds : memo[o] = n
    IN [heap |-> [n \in DOMAIN h \cup fresh |->
                    IF n \in DOMAIN h THEN h[n]
                    ELSE {<<it[1], IF it[2] \in olds THEN memo[it[2]]
                                   ELSE it[2]>> : it \in h[source(n)]}],
        value |-> PyRef(memo[v.s[1]])]

(* The objects of the last returned inventory are dropped when the caller  *)
(* makes its next call; the default skeleton stays.                        *)
Collect(h) == [o \in Reach(h, DefaultRoot) |-> h[o]]

----------------------------------------------------------------------------
(* load_inventory and save_inventory *)

(* A failed backup logged and passed over: the inventory is returned. *)
LoadInventoryDespiteBackup(fs, ts, h, now, preferred_path, default_inv, fault) ==
    LET got == load_from_json(fs, INVENTORY_FILENAME, preferred_path, PyTrue)
        inventory == got.value
        file_loaded == got.second
    IN IF got.kind = "raise" THEN [out |-> got, tars |-> ts, heap |-> h]
       ELSE IF inventory # PyFalse
       THEN LET backup == _make_backup(fs, ts, now, preferred_path,
                                       file_loaded, fault)
            IN [out |-> Return(inventory, PyNone), tars |-> backup.tars,
                heap |-> h]
       ELSE LET copied == Deepcopy(h, default_inv)
            IN [out |-> Return(copied.value, PyNone), tars |-> ts,
                heap |-> copied.heap]

load_inventory(fs, ts, h, now, preferred_path, default_inv, fault) ==
    LET got == load_from_json(fs, INVENTORY_FILENAME, preferred_path, PyTrue)
        inventory == got.value
        file_loaded == got.second
    IN IF got.kind = "raise" THEN [out |-> got, tars |-> ts, heap |-> h]
       ELSE IF inventory # PyFalse
       THEN LET backup == _make_backup(fs, ts, now, preferred_path,
                                       file_loaded, fault)
            IN IF backup.out.kind = "raise"
               THEN [out |-> backup.out, tars |-> backup.tars, heap |-> h]
               ELSE [out |-> Return(inventory, PyNone),
                     tars |-> backup.tars, heap |-> h]
       ELSE LET copied == Deepcopy(h, default_inv)
            IN [out |-> Return(copied.value, PyNone), tars |-> ts,
                heap |-> copied.heap]

(* open(path, 'ab'): the bytes are written after the file's content. *)
WriteFileAppending(fs, path, data) ==
    [q \in DOMAIN fs \cup {path.s} |->
        IF q = path.s
        THEN (IF path.s \in DOMAIN fs THEN fs[q] ELSE <<>>) \o data
        ELSE fs[q]]

(* open(path, 'wb') and write: the file holds the written bytes only.      *)
WriteFile(fs, path, data) ==
    [q \in DOMAIN fs \cup {path.s} |-> IF q = path.s THEN data ELSE fs[q]]

save_inventory(fs, inventory_json, save_path) ==
    LET found == file_find(fs, save_path, PyNone, PyFalse)
        inventory_file ==
            IF INVENTORY_FILENAME = save_path THEN found.value
            ELSE Join(save_path, INVENTORY_FILENAME)
    IN IF INVENTORY_FILENAME = save_path /\ found.kind = "raise"
       THEN [out |-> found, files |-> fs]
       ELSE IF ~IsDir(PyStr(Dirname(inventory_file)))
       THEN [out |-> Raise("IOError", <<>>), files |-> fs]
       ELSE [out |-> Return(PyNone, PyNone),
             files |-> WriteFile(fs, inventory_file, inventory_json)]

----------------------------------------------------------------------------
(* The state machine: the filesystem, the clock and a caller of the module *)

InventoryPath(d) == Join(PyStr(d), INVENTORY_FILENAME).s
FilePaths == {Join(PyStr(d), f).s : d \in ExistingDirs, f \in Filenames}
ArchivePaths ==
    {Join(p, BackupFilename).s : p \in PreferredPaths \ {PyNone}}
SavePaths == (PreferredPaths \ {PyNone}) \cup {INVENTORY_FILENAME}
Faults == {"none", "open", "add"}
Defaults == {PyNone, PyRef(DefaultRoot)}
PassException == {PyTrue, PyFalse}

NoSave == [saved |-> FALSE, save_path |-> PyNone, data |-> <<>>]

(* What a load_from_json call remembers of the call before it: a           *)
(* save_inventory that returned, with its arguments, or nothing.           *)
Remember(c, r) ==
    IF c.op = "save_inventory" /\ r.kind = "return"
    THEN [saved |-> TRUE, save_path |-> c.preferred_path, data |-> c.data]
    ELSE NoSave

Call(op, filename, preferred_path, pass_exception, data, default_inv, fault, now, after) ==
    [op |-> op, filename |-> filename, preferred_path |-> preferred_path,
     pass_exception |-> pass_exception, data |-> data,
     default_inv |-> default_inv, fault |-> fault, now |-> now,
     after |-> after]

NoCall ==
    Call("none", PyNone, PyNone, PyNone, <<>>, PyNone, "none", 0, NoSave)

RECURSIVE TotalEntries(_)
TotalEntries(ts) ==
    IF DOMAIN ts = {} THEN 0
    ELSE LET q == CHOOSE q \in DOMAIN ts : TRUE
         IN Len(ts[q]) + TotalEntries([r \in DOMAIN ts \ {q} |-> ts[r]])

RECURSIVE TotalLoaded(_)
TotalLoaded(S) ==
    IF S = {} THEN 0
    ELSE LET q == CHOOSE q \in S : TRUE
         IN Len(loaded[q]) + TotalLoaded(S \ {q})

Start ==
    /\ tars = << >>
    /\ clock = 0
    /\ heap = HostsSkeleton
    /\ call = NoCall
    /\ ret = Return(PyNone, PyNone)
    /\ files0 = files
    /\ tars0 = tars
    /\ loaded = [a \in ArchivePaths |-> <<>>]
    /\ mutations = 0

(* The filesystem the program starts in: any file, well-formed or not, in  *)
(* any existing directory; no backup archive yet; the caller holds the     *)
(* default skeleton.                                                       *)
InitAny ==
    /\ \E present \in SUBSET FilePaths :
          files \in
            {f \in [present -> Contents] :
                \A q \in present :
                    q[Len(q)] # INVENTORY_FILENAME.s[1] => f[q] = ContentEmpty}
    /\ Start

(* The same, with the inventory files only. *)
Init ==
    /\ \E present \in SUBSET {InventoryPath(d) : d \in ExistingDirs} :
          files \in
            {f \in [present -> Contents] :
                \A q \in present :
                    q = InventoryPath(StandardDir) => f[q] = ContentX1}
    /\ Start

Begin(c, r) ==
    /\ call' = c
    /\ ret' = r
    /\ files0' = files
    /\ tars0' = tars
    /\ mutations' = 0

FileFind(filename, preferred_path, pass_exception) ==
    /\ Begin(Call("file_find", filename, preferred_path, pass_exception,
                  <<>>, PyNone, "none", clock, NoSave),
             file_find(files, filename, preferred_path, pass_exception))
    /\ heap' = Collect(heap)
    /\ UNCHANGED <<files, tars, clock, loaded>>

LoadFromJson(filename, preferred_path, pass_exception) ==
    /\ Begin(Call("load_from_json", filename, preferred_path,
                  pass_exception, <<>>, PyNone, "none", clock,
                  Remember(call, ret)),
             load_from_json(files, filename, preferred_path, pass_exception))
    /\ heap' = Collect(heap)
    /\ UNCHANGED <<files, tars, clock, loaded>>

(* The inventory file a load finds, or PyFalse. *)
Existing(fs, preferred_path) ==
    file_find(fs, INVENTORY_FILENAME, preferred_path, PyTrue).value

LoadInventory(preferred_path, default_inv, fault) ==
    LET done == load_inventory(files, tars, Collect(heap), clock,
                               preferred_path, default_inv, fault)
        found == Existing(files, preferred_path)
        archive == Join(preferred_path, BackupFilename).s
    IN /\ TotalEntries(tars) < MaxEntries
       /\ TotalLoaded(ArchivePaths) < MaxEntries
       /\ Begin(Call("load_inventory", INVENTORY_FILENAME, preferred_path,
                     PyTrue, <<>>, default_inv, fault, clock, NoSave),
                done.out)
       /\ tars' = done.tars
       /\ heap' = done.heap
       /\ loaded' =
            IF done.out.kind = "return" /\ found # PyFalse
               /\ preferred_path # PyNone
            THEN [loaded EXCEPT ![archive] = Append(@, files[found.s])]
            ELSE loaded
       /\ UNCHANGED <<files, clock>>

SaveInventory(inventory_json, save_path) ==
    LET done == save_inventory(files, inventory_json, save_path)
    IN /\ Begin(Call("save_inventory", PyNone, save_path, PyNone,
                     inventory_json, PyNone, "none", clock, NoSave),
                done.out)
       /\ files' = done.files
       /\ heap' = Collect(heap)
       /\ UNCHANGED <<tars, clock, loaded>>

(* The caller changes an object of the inventory load_inventory returned. *)
Mutate(o) ==
    /\ call.op = "load_inventory"
    /\ ret.kind = "return"
    /\ o \in Refs(heap, ret.value)
    /\ mutations < MaxMutations
    /\ heap' = [heap EXCEPT ![o] = @ \cup {<<"mutated", "1">>}]
    /\ mutations' = mutations + 1
    /\ UNCHANGED <<files, tars, clock, call, ret, files0, tars0, loaded>>

Tick ==
    /\ clock < MaxClock
    /\ clock' = clock + 1
    /\ UNCHANGED <<files, tars, heap, call, ret, files0, tars0, loaded,
                   mutations>>

(* The inventory's life: loads with their backups, which may fail, saves   *)
(* and time passing.                                                       *)
Next ==
    \/ \E p \in PreferredPaths \ {PyStr(StandardDir)}, x \in Faults :
          LoadInventory(p, PyRef(DefaultRoot), x)
    \/ \E j \in {ContentX1Spaced, ContentFalse} :
          SaveInventory(j, PyStr(HomeDir))
    \/ Tick

Spec == Init /\ [][Next]_vars

(* Loads with or without a default skeleton, and the caller's changes to   *)
(* what it loaded.                                                         *)
NextDefault ==
    \/ \E p \in PreferredPaths, d \in Defaults : LoadInventory(p, d, "none")
    \/ \E o \in ObjIds : Mutate(o)

SpecDefault == Init /\ [][NextDefault]_vars

(* Reading the inventory, through load_inventory or load_from_json. *)
NextLoad ==
    \/ \E p \in PreferredPaths, x \in Faults :
          LoadInventory(p, PyRef(DefaultRoot), x)
    \/ \E p \in PreferredPaths, e \in PassException :
          LoadFromJson(INVENTORY_FILENAME, p, e)

SpecLoad == Init /\ [][NextLoad]_vars

(* Path resolution alone. *)
NextFind ==
    \E f \in Filenames, p \in PreferredPaths, e \in PassException :
        FileFind(f, p, e)

SpecFind == InitAny /\ [][NextFind]_vars

(* Saving and reading back. *)
NextJson ==
    \/ \E f \in Filenames, p \in PreferredPaths, e \in PassException :
          LoadFromJson(f, p, e)
    \/ \E j \in Contents, p \in SavePaths : SaveInventory(j, p)

SpecJson == InitAny /\ [][NextJson]_vars

----------------------------------------------------------------------------
(* Properties *)

(* The candidates of the last call, as the documentation lists them: the   *)
(* preferred directory first when one is given, then the standard one.     *)
PreferredCandidate == Join(Expanduser(call.preferred_path), call.filename)
StandardCandidate == Join(PyStr(StandardDir), call.filename)
Searched ==
    IF call.preferred_path = PyNone THEN <<StandardCandidate.s>>
    ELSE <<PreferredCandidate.s, StandardCandidate.s>>
NowhereToBeFound == \A i \in DOMAIN Searched : Searched[i] \notin DOMAIN files

(* The file the last call was to resolve (no call that reads changes the   *)
(* files): the first candidate that is a regular file, or PyFalse.         *)
InventoryFound ==
    IF call.preferred_path # PyNone /\ PreferredCandidate.s \in DOMAIN files
    THEN PreferredCandidate
    ELSE IF StandardCandidate.s \in DOMAIN files THEN StandardCandidate
    ELSE PyFalse
InventoryContent == files[InventoryFound.s]

(* The entry a backup made by the last call adds. *)
BackupEntry ==
    [name |-> PyStr(<<"openstack_inventory.json", "-">>
                    \o Strftime(call.now) \o <<".json">>),
     content |-> InventoryContent]

(* Exactly one entry, BackupEntry, was added to the archives by the last   *)
(* call, after the entries some archive had.                               *)
OneEntryGained ==
    \E a \in DOMAIN tars :
        /\ tars[a] = Append(Entries(tars0, [s |-> a]), BackupEntry)
        /\ \A b \in DOMAIN tars \ {a} : b \in DOMAIN tars0 /\ tars[b] = tars0[b]

(* C1: every load_inventory call made while a regular file                 *)
(* openstack_inventory.json with well-formed JSON content exists at a      *)
(* search path, for any preferred_path (None included), returns the parsed *)
(* contents of the file, and the backup archive has gained exactly one     *)
(* entry named <basename>-<UTC timestamp>.json.  (Stated for a filesystem  *)
(* that answers without I/O errors.)                                       *)
C1_LoadReturnsAndBacksUp ==
    (/\ call.op = "load_inventory"
     /\ call.fault = "none"
     /\ InventoryFound # PyFalse
     /\ InventoryContent \in WellFormed)
    => /\ ret = Return(JsonLoads(InventoryContent).value, PyNone)
       /\ OneEntryGained

(* C2: with no openstack_inventory.json at any search path, load_inventory *)
(* returns a value deeply equal to default_inv that shares no object with  *)
(* it, so that the caller's later mutations of the returned value leave    *)
(* default_inv as it was; no archive is created or appended to.            *)
C2_DefaultIsDeepCopied ==
    (call.op = "load_inventory" /\ InventoryFound = PyFalse)
    => /\ ret.kind = "return"
       /\ ret.value.t = call.default_inv.t
       /\ mutations = 0
            => DeepValue(heap, ret.value) = DeepValue(heap, call.default_inv)
       /\ Refs(heap, ret.value) \cap Refs(heap, call.default_inv) = {}
       /\ DeepValue(heap, call.default_inv)
            = DeepValue(HostsSkeleton, call.default_inv)
       /\ tars = tars0

C2_Witness ==
    /\ call.op = "load_inventory"
    /\ InventoryFound = PyFalse
    /\ call.default_inv = PyRef(DefaultRoot)
    /\ mutations > 0
    /\ DeepValue(heap, ret.value) # DeepValue(heap, call.default_inv)

(* C3: when openstack_inventory.json exists at a search path and is not    *)
(* well-formed JSON, load_inventory and load_from_json raise the parse     *)
(* error; they return neither the default skeleton nor the no-data         *)
(* sentinel, and a missing inventory never ends in a parse error, so the   *)
(* two outcomes are told apart.                                            *)
C3_CorruptInventoryRaises ==
    (/\ call.op \in {"load_inventory", "load_from_json"}
     /\ call.filename = INVENTORY_FILENAME)
    => /\ (InventoryFound # PyFalse /\ InventoryContent \notin WellFormed)
            => ret = Raise("ValueError", <<>>)
       /\ InventoryFound = PyFalse => ret.exc # "ValueError"

C3_Witness ==
    /\ call.op = "load_inventory"
    /\ InventoryFound # PyFalse
    /\ InventoryContent = ContentTruncated
    /\ ret.kind = "raise"

(* C4: for a filename that is a regular file in the preferred directory,   *)
(* file_find returns the path in the preferred directory, whether or not   *)
(* the file also exists in /etc/openstack_deploy; the candidate of the     *)
(* standard directory is returned in place of the preferred one only when  *)
(* the preferred candidate is not a regular file.                          *)
C4_PreferredWins ==
    (call.op = "file_find" /\ call.preferred_path # PyNone)
    => /\ PreferredCandidate.s \in DOMAIN files
            => ret = Return(PreferredCandidate, PyNone)
       /\ (/\ ret.kind = "return"
           /\ ret.value = StandardCandidate
           /\ StandardCandidate # PreferredCandidate)
            => PreferredCandidate.s \notin DOMAIN files

C4_Witness ==
    /\ call.op = "file_find"
    /\ call.preferred_path = PyStr(TildeDir)
    /\ PreferredCandidate.s \in DOMAIN files
    /\ StandardCandidate.s \in DOMAIN files
    /\ ret.value = PyStr(HomeDir \o call.filename.s)

(* C5: for a filename that is a regular file at no search path, file_find  *)
(* in the mode that returns (pass_exception is not False) returns the      *)
(* no-match sentinel False without raising, and in the mode that raises    *)
(* (pass_exception is False) raises SystemExit with a message listing      *)
(* every candidate searched: the preferred one when given, and the         *)
(* standard one.                                                           *)
C5_NotFoundModes ==
    (call.op = "file_find" /\ NowhereToBeFound)
    => IF call.pass_exception = PyFalse
       THEN ret = Raise("SystemExit", Searched)
       ELSE ret = Return(PyFalse, PyNone)

C5_Witness ==
    /\ call.op = "file_find"
    /\ NowhereToBeFound
    /\ call.preferred_path = PyStr(TildeDir)
    /\ ret.kind = "raise"
    /\ Len(ret.msg) = Len(Searched)

(* C6: as file_find's docstring has it, when no file is found file_find    *)
(* raises SystemExit if pass_exception is True and returns False if        *)
(* pass_exception is False.                                                *)
C6_DocstringPolarity ==
    (call.op = "file_find" /\ NowhereToBeFound)
    => IF call.pass_exception = PyTrue
       THEN ret.kind = "raise" /\ ret.exc = "SystemExit"
       ELSE ret = Return(PyFalse, PyNone)

(* C7: as load_from_json's docstring has it, when no file is resolved in   *)
(* the mode that does not raise, load_from_json returns (False, None);     *)
(* otherwise it returns the parsed contents and the resolved path of the   *)
(* file read.                                                              *)
C7_NoFileIsFalseNone ==
    (call.op = "load_from_json" /\ ret.kind = "return")
    => IF NowhereToBeFound
       THEN ret.value = PyFalse /\ ret.second = PyNone
       ELSE /\ ret.second.s \in DOMAIN files
            /\ ret.value = JsonLoads(files[ret.second.s]).value

(* C8: for an existing directory dir and well-formed data,                 *)
(* save_inventory(data, dir) followed by                                   *)
(* load_from_json('openstack_inventory.json', dir) returns data decoded as *)
(* JSON with the path dir/openstack_inventory.json, whatever the file held *)
(* before the save.                                                        *)
C8_SaveThenLoad ==
    (/\ call.op = "load_from_json"
     /\ call.filename = INVENTORY_FILENAME
     /\ call.after.saved
     /\ call.after.save_path = call.preferred_path
     /\ IsDir(call.after.save_path)
     /\ call.after.data \in WellFormed)
    => ret = Return(JsonLoads(call.after.data).value,
                    PyStr(call.preferred_path.s
                          \o <<"openstack_inventory.json">>))

C8_Witness ==
    /\ call.op = "load_from_json"
    /\ call.filename = INVENTORY_FILENAME
    /\ call.after.saved
    /\ call.after.save_path = call.preferred_path
    /\ call.preferred_path = PyStr(HomeDir)
    /\ call.after.data = ContentX1Spaced
    /\ ret.value = PyDict(<<"\"x\"", "1">>)

(* The backup of the last load_inventory call was attempted and failed. *)
BackupFailed ==
    /\ InventoryFound # PyFalse
    /\ InventoryContent \in WellFormed \ {ContentFalse}
    /\ \/ call.fault # "none"
       \/ call.preferred_path = PyNone
       \/ ~IsDir(call.preferred_path)

(* C9: when the backup step of a load_inventory of an existing inventory   *)
(* fails, the failure reaches the caller and nothing is returned:          *)
(* load_inventory returns the parsed contents of an existing file only     *)
(* after the backup entry of that load was written.                        *)
C9_NoInventoryWithoutBackup ==
    call.op = "load_inventory"
    => /\ BackupFailed => ret.kind = "raise" /\ ret.exc # "ValueError"
       /\ (ret.kind = "return" /\ ret.value.t = "dict") => OneEntryGained

C9_Witness ==
    /\ call.op = "load_inventory"
    /\ BackupFailed
    /\ call.fault = "add"
    /\ call.preferred_path = PyStr(HomeDir)
    /\ ret = Raise("IOError", <<>>)

ArchiveContents(a) ==
    LET entries == Entries(tars, [s |-> a])
    IN [i \in DOMAIN entries |-> entries[i].content]

(* C10: the backup archive is append-only: after any sequence of           *)
(* load_inventory and save_inventory calls, the entries of the archive of  *)
(* a preferred directory are, in order, the contents the inventory file    *)
(* had at each load of an existing inventory that returned (one entry per  *)
(* such load, two loads in the same second included), and a load leaves    *)
(* the inventory files as they were.                                       *)
C10_ArchiveIsTheLogOfLoads ==
    /\ \A a \in ArchivePaths : ArchiveContents(a) = loaded[a]
    /\ call.op = "load_inventory" => files = files0

====
